---- MODULE Spec2Model ----
(***************************************************************************)
(* A model of the zthun/linters orchestration core:                        *)
(*   - ZLint (src/src/lint/lint.class.ts): parse, lint and run;            *)
(*   - ZFileLint (src/src/zfile-lint/zfile-lint.class.ts): lint, _format.  *)
(* Spec     is ZLint.run with its six linter slots behaving as arbitrary   *)
(*          IZLinter implementations (resolve true, resolve false, reject).*)
(* SpecFile is one ZFileLint.lint invocation over a small file system.     *)
(* Every await of the code is a state of its own: the step that makes a    *)
(* call ends where the code suspends, the next one starts when it settles. *)
(***************************************************************************)
EXTENDS Integers, Sequences, FiniteSets, TLC

\* ZLint.run: position, locals of lint, the calls made on the linter slots and
\* what they returned, the logger's lines, and the promise run returned
VARIABLES pc, options, current, result, calls, returned, logger, promise

\* what parse found on its way to the configuration: whether a file was located
\* and what reading and parsing it gave
VARIABLE env

\* what an earlier lint(options) on the same ZLint did, for a second call with
\* the same options; prior.runs counts the calls that ended
VARIABLE prior

\* the same for an earlier lint(src, config) on the same ZFileLint
VARIABLE fprior

\* ZFileLint.lint: position, arguments, the file system, locals, the calls made
\* on the config reader, fs.readFile and the content linter, the logger's lines,
\* and the promise lint returned
VARIABLES fpc, src, config, disk, allFiles, idx, foptions, fresult, io, flogger, fpromise

\* ZConfigReaderPrettier.read: position, the config argument, what the
\* underlying resolveConfig resolves to, the calls made on it, and the promise
\* read returned
VARIABLES rpc, rconfig, rresolved, rcalls, rpromise

zvars == <<pc, options, current, result, calls, returned, logger, promise, env, prior>>

fvars == <<fpc, src, config, disk, allFiles, idx, foptions, fresult, io, flogger, fpromise,
          fprior>>

rvars == <<rpc, rconfig, rresolved, rcalls, rpromise>>

vars == <<zvars, fvars, rvars>>

(***************************************************************************)
(* JavaScript values                                                       *)
(***************************************************************************)
\* null / undefined for a string-valued slot
Null == "<null>"

\* JS truthiness of a string-or-null value: null, undefined and "" are falsy
Truthy(s) == s /= Null /\ s /= ""

\* the override passed on as it is, with no fallback
OrElseNone(a, b) == a

\* a || b on string-or-null values
OrElse(a, b) == IF Truthy(a) THEN a ELSE b

(***************************************************************************)
(* ZLint: statics                                                          *)
(***************************************************************************)
DefaultEsLintConfig == "lint/.eslintrc"
DefaultSassLintConfig == "lint/.sass-lint.yml"
DefaultHtmlHintConfig == "lint/.htmlhintrc"
DefaultTsLintConfig == "lint/tslint.json"

\* the blocks re-ordered with the script and style kinds first
KindsScriptsFirst == <<"es", "ts", "sass", "html", "json", "yaml">>

\* the kinds, in the order the blocks of ZLint.lint appear in the code
Kinds == <<"json", "yaml", "es", "ts", "sass", "html">>

KindSet == {Kinds[n] : n \in 1..Len(Kinds)}

\* the kinds whose block passes a config argument to the linter
ConfigKinds == {"es", "ts", "sass", "html"}

\* a pasted block that kept the linter of the block it was copied from
LinterOfPasted(kind) ==
  CASE kind = "json" -> "yamlLint"
    [] kind = "yaml" -> "yamlLint"
    [] kind = "es" -> "esLint"
    [] kind = "ts" -> "esLint"
    [] kind = "sass" -> "sassLint"
    [] kind = "html" -> "htmlHint"

\* the linter field ZLint.lint calls for a kind
LinterOf(kind) ==
  CASE kind = "json" -> "jsonLint"
    [] kind = "yaml" -> "yamlLint"
    [] kind = "es" -> "esLint"
    [] kind = "ts" -> "tsLint"
    [] kind = "sass" -> "sassLint"
    [] kind = "html" -> "htmlHint"

\* the word the progress header uses for a kind
HeaderName(kind) ==
  CASE kind = "es" -> "javascript"
    [] kind = "ts" -> "typescript"
    [] OTHER -> kind

DefaultConfigOf(kind) ==
  CASE kind = "es" -> DefaultEsLintConfig
    [] kind = "ts" -> DefaultTsLintConfig
    [] kind = "sass" -> DefaultSassLintConfig
    [] kind = "html" -> DefaultHtmlHintConfig

(***************************************************************************)
(* Inputs of ZLint.run                                                     *)
(***************************************************************************)
\* glob lists a configuration file gives for a kind (an empty array included)
GlobLists == {<<>>, <<"**/*">>}

\* config override strings a configuration file gives for a kind
ConfigPaths == {"", "custom.cfg"}

\* at most this many *Config override keys in one options object
MaxOverrides == 1

\* at most this many *Files keys whose value is the empty array
MaxEmptyLists == 1

\* An options object (IZLintOptions): files[k] is options.<k>Files and
\* configs[k] is options.<k>Config; a key outside the domain is undefined.
OptionsSet ==
  { [files |-> f, configs |-> c] :
      f \in { g \in UNION { [S -> GlobLists] : S \in SUBSET KindSet } :
                Cardinality({k \in DOMAIN g : g[k] = <<>>}) <= MaxEmptyLists },
      c \in UNION { [S -> ConfigPaths] :
                      S \in {T \in SUBSET ConfigKinds : Cardinality(T) <= MaxOverrides} } }

NoOptions == [files |-> <<>>, configs |-> <<>>]

\* options.<kind>Files, truthiness: an array (even empty) is truthy, undefined is not
HasFiles(o, kind) == kind \in DOMAIN o.files

\* options.<kind>Config as a string-or-undefined value
ConfigOf(o, kind) == IF kind \in DOMAIN o.configs THEN o.configs[kind] ELSE Null

\* args.config of IZLintArgs
ArgConfigs == {Null, "", "my.json"}

\* the rejection of cosmiconfig's search when the file it finds does not parse
SearchError == "<search rejects>"

\* what cosmiconfig('linters').search() settles to: null, a result with a
\* filepath, or a rejection
SearchResults == {Null, ".lintersrc", SearchError}

\* what readFile + JSON.parse of the configuration file yield
ConfigFileStates == {"unreadable", "malformed", "null", "plain", "wrapped"}

\* JSON.parse(buffer) of a well-formed file holding the options o, either at the
\* top level or under the zlint key
ConfigData(fileState, o) == IF fileState = "wrapped" THEN [zlint |-> o] ELSE o

(***************************************************************************)
(* ZLint.parse (lint.class.ts 72-87)                                       *)
(***************************************************************************)
\* lines 73-75: the file to read: args.config when truthy, else what the
\* search resolved to
ConfigFile(argConfig, search) == IF Truthy(argConfig) THEN argConfig ELSE search

\* lines 73-80: how the first half of parse ends: "ok" with a file located, or
\* the failing step
LoadOutcome(argConfig, search) ==
  IF ~Truthy(argConfig) /\ search = SearchError THEN "search-error"
  ELSE IF ~Truthy(ConfigFile(argConfig, search)) THEN "no-config"
  ELSE "ok"

\* a parse that takes a file it cannot parse for an empty configuration
ReadOutcomeLenient(fileState) ==
  IF fileState = "unreadable" THEN "read-error" ELSE "ok"

\* lines 84-86: how the second half of parse ends: "ok" or the failing step
ReadOutcome(fileState) ==
  IF fileState = "unreadable" THEN "read-error"
  ELSE IF fileState = "malformed" THEN "json-error"
  ELSE IF fileState = "null" THEN "type-error"
  ELSE "ok"

\* line 86: configData.zlint ? configData.zlint : configData
Unwrap(configData) ==
  IF "zlint" \in DOMAIN configData THEN configData.zlint ELSE configData

\* line 82: the log line written once a file was located
ParseLog(configFile) ==
  [level |-> "log", text |-> "Reading config file", about |-> configFile]

(***************************************************************************)
(* ZLint.lint (lint.class.ts 96-137)                                       *)
(***************************************************************************)
\* what an IZLinter's lint promise can do
LinterOutcomes == {"true", "false", "reject"}

\* the arguments ZLint.lint passes to the linter of a kind
LinterArgs(o, kind) ==
  IF kind \in ConfigKinds
    THEN << o.files[kind], OrElse(ConfigOf(o, kind), DefaultConfigOf(kind)) >>
    ELSE << o.files[kind] >>

\* a block entered only for a non-empty glob list
InvokesNonEmpty(o, kind) == HasFiles(o, kind) /\ o.files[kind] /= <<>>

\* whether ZLint.lint enters the block of a kind
Invokes(o, kind) == HasFiles(o, kind)

\* result = current: the last linter decides
FoldLast(res, cur) == cur

\* result = result && current
Fold(res, cur) == res /\ cur

\* return result ? 0 : 1
ExitCode(res) == IF res THEN 0 ELSE 1

\* the block after the block of a kind, or the return statement
NextPc(kind) ==
  LET n == CHOOSE m \in 1..Len(Kinds) : Kinds[m] = kind
  IN IF n < Len(Kinds) THEN Kinds[n + 1] ELSE "return"

\* a call that is not awaited: lint goes straight on to the next block
SuspendedNever(kind) == NextPc(kind)

\* where lint is while it awaits the linter of a kind
Suspended(kind) == "await " \o kind

\* lint returning as soon as one linter failed
AfterLinterStop(kind, cur) == IF cur THEN NextPc(kind) ELSE "return"

\* where lint goes once the linter of a kind returned cur: on to the next block,
\* whatever cur is (no return or break follows the fold)
AfterLinter(kind, cur) == NextPc(kind)

\* lint.class.ts 146-147: the steps of run whose rejection the try block awaits
AwaitedInTry == {"parse"}

\* the promise run returns once a step of it failed
RunFailure(step, err) ==
  IF step \in AwaitedInTry
    THEN [state |-> "resolved", value |-> 1]
    ELSE [state |-> "rejected", reason |-> err]

HeaderLog(o, kind) ==
  [level |-> "log", text |-> "Linting " \o HeaderName(kind) \o " files", about |-> Len(o.files[kind])]

\* no earlier call
NoPrior == [runs |-> 0, calls |-> <<>>, returned |-> <<>>, logger |-> <<>>,
            promise |-> [state |-> "pending"]]

\* the linters are deterministic: called again with the same arguments, a
\* linter does what it did in the earlier call
Behaviour(linter) ==
  LET S == {n \in 1..Len(prior.returned) : prior.calls[n].linter = linter}
  IN IF S = {} THEN LinterOutcomes ELSE {prior.returned[n] : n \in S}

\* a ZLint after construction, with the caller about to do p
ZStart(p) ==
  /\ pc = p
  /\ options = NoOptions
  /\ current = TRUE
  /\ result = TRUE
  /\ calls = <<>>
  /\ returned = <<>>
  /\ logger = <<>>
  /\ promise = [state |-> "pending"]
  /\ env = [config |-> Null, search |-> Null, file |-> "not read"]
  /\ prior = NoPrior

\* the caller is about to call run(args)
ZInit == ZStart("run")

\* a ZLint that is not called, for the runs of a ZFileLint alone
ZIdle == ZStart("idle")

\* the caller is about to call lint(options) itself
ZCall == ZStart("lint")

\* the error run's catch logs for a failed step, and the promise run returns
ParseFails(outcome) ==
  /\ logger' = Append(logger, [level |-> "error", text |-> outcome, about |-> "run"])
  /\ promise' = RunFailure("parse", outcome)
  /\ pc' = "caught"

\* run(args), lines 146 and 73-74: run calls parse, which builds configLoad
\* (the search is made only when args.config is falsy) and awaits it
RunParse ==
  /\ pc = "run"
  /\ \E argConfig \in ArgConfigs :
       \E search \in (IF Truthy(argConfig) THEN {Null} ELSE SearchResults) :
         env' = [config |-> argConfig, search |-> search, file |-> "not read"]
  /\ pc' = "await configLoad"
  /\ UNCHANGED <<options, current, result, calls, returned, logger, promise, prior>>
  /\ UNCHANGED <<fvars, rvars>>

\* configLoad settles, lines 74-84: the search rejected or named no file, and
\* run's catch reports it (148-151); or parse logs the file and starts to read it
ConfigLoadSettles ==
  /\ pc = "await configLoad"
  /\ LET outcome == LoadOutcome(env.config, env.search) IN
       IF outcome = "ok"
         THEN /\ logger' = Append(logger, ParseLog(ConfigFile(env.config, env.search)))
              /\ pc' = "await readFile"
              /\ promise' = promise
         ELSE ParseFails(outcome)
  /\ UNCHANGED <<options, current, result, calls, returned, env, prior>>
  /\ UNCHANGED <<fvars, rvars>>

\* what the file read by parse holds, as parse sees it
FileSeen(fileState) ==
  IF fileState \in {"plain", "wrapped"} THEN "well-formed" ELSE fileState

\* readFile settles, lines 84-86 and 146-147: the read failed or the content
\* does not parse to an object, and run's catch reports it; or parse returns the
\* options and run enters lint (lines 97-98)
ConfigFileSettles ==
  /\ pc = "await readFile"
  /\ \E fileState \in ConfigFileStates :
       LET outcome == ReadOutcome(fileState) IN
       /\ env' = [env EXCEPT !.file = FileSeen(fileState)]
       /\ IF outcome = "ok"
            THEN /\ \E o \in OptionsSet : options' = Unwrap(ConfigData(fileState, o))
                 /\ pc' = Kinds[1]
                 /\ current' = TRUE
                 /\ result' = TRUE
                 /\ UNCHANGED <<logger, promise>>
            ELSE /\ ParseFails(outcome)
                 /\ UNCHANGED <<options, current, result>>
  /\ UNCHANGED <<calls, returned, prior>>
  /\ UNCHANGED <<fvars, rvars>>

\* one "if (options.<kind>Files) { ... }" block of lint, up to the await: the
\* test, the progress header and the call of the linter
LintBlock(kind) ==
  /\ pc = kind
  /\ IF Invokes(options, kind)
       THEN /\ logger' = Append(logger, HeaderLog(options, kind))
            /\ calls' = Append(calls, [linter |-> LinterOf(kind), args |-> LinterArgs(options, kind)])
            /\ pc' = Suspended(kind)
       ELSE /\ pc' = NextPc(kind)
            /\ UNCHANGED <<calls, logger>>
  /\ UNCHANGED <<options, current, result, returned, promise, env, prior>>
  /\ UNCHANGED <<fvars, rvars>>

\* the linter lint is waiting for settles: current = await ...; result = result
\* && current, or the rejection leaves lint (and run, line 147)
LinterSettles ==
  \E kind \in KindSet :
    /\ pc = Suspended(kind)
    /\ Len(returned) < Len(calls)
    /\ \E out \in Behaviour(LinterOf(kind)) :
         /\ returned' = Append(returned, out)
         /\ IF out = "reject"
              THEN /\ promise' = RunFailure("lint", LinterOf(kind))
                   /\ pc' = "rejected"
                   /\ UNCHANGED <<current, result>>
              ELSE /\ current' = (out = "true")
                   /\ result' = Fold(result, current')
                   /\ pc' = AfterLinter(kind, current')
                   /\ promise' = promise
    /\ UNCHANGED <<options, calls, logger, env, prior>>
    /\ UNCHANGED <<fvars, rvars>>

LintJson == LintBlock("json")

LintYaml == LintBlock("yaml")

LintEs == LintBlock("es")

LintTs == LintBlock("ts")

LintSass == LintBlock("sass")

LintHtml == LintBlock("html")

\* line 136, and run's line 147 handing lint's result to the caller
LintReturn ==
  /\ pc = "return"
  /\ promise' = [state |-> "resolved", value |-> ExitCode(result)]
  /\ pc' = "done"
  /\ UNCHANGED <<options, current, result, calls, returned, logger, env, prior>>
  /\ UNCHANGED <<fvars, rvars>>

\* lint(options) called by a caller that holds the options, lines 96-98
LintCall ==
  /\ pc = "lint"
  /\ \E o \in OptionsSet : options' = o
  /\ current' = TRUE
  /\ result' = TRUE
  /\ pc' = Kinds[1]
  /\ UNCHANGED <<calls, returned, logger, promise, env, prior>>
  /\ UNCHANGED <<fvars, rvars>>

\* lint(options) called a second time on the same ZLint with the same options:
\* lines 97-98 start it from fresh locals
LintAgain ==
  /\ pc \in {"done", "rejected"}
  /\ prior.runs = 0
  /\ prior' = [runs |-> 1, calls |-> calls, returned |-> returned, logger |-> logger,
               promise |-> promise]
  /\ current' = TRUE
  /\ result' = TRUE
  /\ pc' = Kinds[1]
  /\ calls' = <<>>
  /\ returned' = <<>>
  /\ logger' = <<>>
  /\ promise' = [state |-> "pending"]
  /\ UNCHANGED <<options, env>>
  /\ UNCHANGED <<fvars, rvars>>

(***************************************************************************)
(* ZFileLint (zfile-lint.class.ts)                                         *)
(***************************************************************************)
\* the files of the working directory
Files == {"a.json", "b.json"}

\* what reading a file and handing its content to the content linter do:
\*   "valid"       readFile resolves, contentLint.lint resolves
\*   "invalid"     readFile resolves, contentLint.lint returns a rejected promise
\*   "throws"      readFile resolves, contentLint.lint throws synchronously
\*   "unreadable"  readFile rejects
FileStates == {"valid", "invalid", "throws", "unreadable"}

\* the glob patterns callers pass
Patterns == {"a.json", "b.json", "*.json", "?.json", "{a,b}.json", "*.yaml", ""}

\* G.sync throws 'must provide pattern' for the empty pattern
GlobThrows(pattern) == pattern = ""

\* G.sync(pattern, {dot: true}): the matches of one of the patterns above in
\* the working directory, in glob's order, when it does not throw
Glob(pattern) ==
  CASE pattern = "a.json" -> <<"a.json">>
    [] pattern = "b.json" -> <<"b.json">>
    [] pattern = "*.json" -> <<"a.json", "b.json">>
    [] pattern = "?.json" -> <<"a.json", "b.json">>
    [] pattern = "{a,b}.json" -> <<"a.json", "b.json">>
    [] pattern = "*.yaml" -> <<>>

\* longest src array
MaxPatterns == 2

SrcLists == UNION { [1..n -> Patterns] : n \in 0..MaxPatterns }

\* the config argument of lint: undefined, the empty string or a path
ConfigArgs == {Null, "", "html.json"}

\* what configReader.read can do: resolve, return a rejected promise, throw
ReaderOutcomes == {"resolve", "reject", "throw"}

\* allFiles kept on the object from one call to the next
EntryFilesKept(kept) == kept

\* line 40: let allFiles = []
EntryFiles(kept) == <<>>

\* an expansion that drops the matches an earlier pattern already gave
RECURSIVE ExpandAllUnique(_)
ExpandAllUnique(patterns) ==
  IF patterns = <<>> \/ GlobThrows(Head(patterns)) THEN <<>>
  ELSE LET first == Glob(Head(patterns))
           Fresh(f) == \A n \in 1..Len(first) : first[n] /= f
       IN first \o SelectSeq(ExpandAllUnique(Tail(patterns)), Fresh)

\* lines 40-44: allFiles = allFiles.concat(G.sync(pattern)) for each pattern of
\* src, up to the end of src or to the pattern G.sync throws for
RECURSIVE ExpandAll(_)
ExpandAll(patterns) ==
  IF patterns = <<>> \/ GlobThrows(Head(patterns)) THEN <<>>
  ELSE Glob(Head(patterns)) \o ExpandAll(Tail(patterns))

\* line 43 throws for one of the patterns: it is in no try block, so the
\* exception leaves lint
ExpandThrows(patterns) == \E n \in 1..Len(patterns) : GlobThrows(patterns[n])

\* lint calling configReader.read whatever the config argument is
ReadsConfigAlways(cfg) == TRUE

\* line 50: whether lint calls configReader.read
ReadsConfig(cfg) == Truthy(cfg)

\* line 37: let options = {}
EmptyOptions == "{}"

\* the options the reader resolves to for a path
LoadedOptions(cfg) == "options of " \o cfg

\* a _format that writes the error but not the line naming the file
FormatDetailOnly(file, err) ==
  << [level |-> "error", text |-> err] >>

\* lines 81-85: _format(file, err) writes two error lines
Format(file, err) ==
  << [level |-> "error", text |-> "Errors in " \o file \o "."],
     [level |-> "error", text |-> err] >>

\* the loop leaving at the first failed file
AfterFileShortCircuit(n, files, res) == IF res /\ n < Len(files) THEN "read" ELSE "return"

\* line 62: the loop moves on to the next file, or leaves the loop, whatever
\* the result so far
AfterFile(n, files, res) == IF n < Len(files) THEN "read" ELSE "return"

\* lint without the early return of line 46-48
NothingMatchedNever(files) == FALSE

\* line 46: allFiles.length === 0
NothingMatched(files) == Len(files) = 0

\* a catch of the config read that logs and carries on
AfterConfigSwallow(out) == "read"

\* lines 51-56: where lint goes once configReader.read settled
AfterConfig(out) == IF out = "resolve" THEN "read" ELSE "done"

\* the awaited steps of lint that sit inside a try block (51-56 and 63-69)
Caught(step) == step \in {"config", "read", "validate"}

\* line 67 of the catch block: the result once a file failed
Failed(res) == FALSE

\* the error of a file whose read or validation fails
ErrorOf(state, file) ==
  CASE state = "unreadable" -> "ENOENT " \o file
    [] state = "invalid" -> "invalid content"
    [] state = "throws" -> "linter threw"
    [] OTHER -> ""

\* no earlier call
NoFilePrior == [runs |-> 0, io |-> <<>>, flogger |-> <<>>, fpromise |-> [state |-> "pending"]]

\* the config reader is deterministic over an unchanged configuration: called
\* again, it does what it did in the earlier call
ReaderBehaviour ==
  LET S == {n \in 1..Len(fprior.io) : fprior.io[n].op = "configReader.read"}
  IN IF S = {} THEN ReaderOutcomes ELSE {fprior.io[n].outcome : n \in S}

FIdle ==
  /\ fpc = "idle"
  /\ src = <<>>
  /\ config = Null
  /\ disk = [f \in Files |-> "valid"]
  /\ allFiles = <<>>
  /\ idx = 0
  /\ foptions = EmptyOptions
  /\ fresult = TRUE
  /\ io = <<>>
  /\ flogger = <<>>
  /\ fpromise = [state |-> "pending"]
  /\ fprior = NoFilePrior

FInit ==
  /\ fpc = "call"
  /\ src = <<>>
  /\ config = Null
  /\ disk \in [Files -> FileStates]
  /\ allFiles = <<>>
  /\ idx = 0
  /\ foptions = EmptyOptions
  /\ fresult = TRUE
  /\ io = <<>>
  /\ flogger = <<>>
  /\ fpromise = [state |-> "pending"]
  /\ fprior = NoFilePrior

\* lint(src, config), lines 35-48: expand the globs, return when nothing matched
Expand ==
  /\ fpc \in {"call", "call again"}
  /\ \E s \in (IF fpc = "call" THEN SrcLists ELSE {src}),
        c \in (IF fpc = "call" THEN ConfigArgs ELSE {config}) :
       /\ src' = s
       /\ config' = c
       /\ allFiles' = EntryFiles(allFiles) \o ExpandAll(s)
  /\ fresult' = TRUE
  /\ foptions' = EmptyOptions
  /\ IF ExpandThrows(src')
       THEN /\ fpromise' = [state |-> "rejected", reason |-> "must provide pattern"]
            /\ fpc' = "done"
       ELSE IF NothingMatched(allFiles')
         THEN /\ fpromise' = [state |-> "resolved", value |-> fresult']
              /\ fpc' = "done"
         ELSE /\ fpromise' = fpromise
              /\ fpc' = "config"
  /\ UNCHANGED <<disk, idx, io, flogger, fprior>>
  /\ UNCHANGED <<zvars, rvars>>

\* lines 59-60: the two progress lines
ProgressLog(files) ==
  << [level |-> "log", text |-> "Checking syntax for files", about |-> Len(files)],
     [level |-> "log", text |-> ""] >>

\* lines 52-60: configReader.read ended with out: the options and the progress
\* lines, or the catch that logs the error and returns false
ConfigEnds(out) ==
  IF out /= "resolve" /\ ~Caught("config")
    THEN /\ fpromise' = [state |-> "rejected", reason |-> "config " \o out]
         /\ fpc' = "done"
         /\ UNCHANGED <<foptions, fresult, idx, flogger>>
    ELSE /\ fpc' = AfterConfig(out)
         /\ foptions' = IF out = "resolve" THEN LoadedOptions(config) ELSE foptions
         /\ IF fpc' = "done"
              THEN /\ flogger' = Append(flogger, [level |-> "error", text |-> "config " \o out])
                   /\ fpromise' = [state |-> "resolved", value |-> FALSE]
                   /\ UNCHANGED <<fresult, idx>>
              ELSE /\ flogger' = flogger \o ProgressLog(allFiles)
                   /\ idx' = 1
                   /\ UNCHANGED <<fresult, fpromise>>

\* lines 50-60: lint calls configReader.read when a config was given and awaits
\* it (a reader that throws ends in the catch at once); with no config it goes
\* on to the progress lines
ReadConfig ==
  /\ fpc = "config"
  /\ IF ReadsConfig(config)
       THEN \E out \in ReaderBehaviour :
              IF out = "throw"
                THEN /\ io' = Append(io, [op |-> "configReader.read", arg |-> config,
                                          outcome |-> "throw"])
                     /\ ConfigEnds("throw")
                ELSE /\ io' = Append(io, [op |-> "configReader.read", arg |-> config,
                                          outcome |-> "pending"])
                     /\ fpc' = "await config"
                     /\ UNCHANGED <<foptions, fresult, idx, flogger, fpromise>>
       ELSE /\ flogger' = flogger \o ProgressLog(allFiles)
            /\ fpc' = "read"
            /\ idx' = 1
            /\ UNCHANGED <<foptions, fresult, fpromise, io>>
  /\ UNCHANGED <<src, config, disk, allFiles, fprior>>
  /\ UNCHANGED <<zvars, rvars>>

\* the call lint awaits settles with out
Settled(trace, out) == [trace EXCEPT ![Len(trace)].outcome = out]

\* the promise of configReader.read settles, lines 52-60
ConfigSettles ==
  /\ fpc = "await config"
  /\ \E out \in ReaderBehaviour \ {"throw"} :
       /\ io' = Settled(io, out)
       /\ ConfigEnds(out)
  /\ UNCHANGED <<src, config, disk, allFiles, fprior>>
  /\ UNCHANGED <<zvars, rvars>>

\* lines 66-69: the catch of the loop body, and on to the next file
FileFails(step, file) ==
  IF Caught(step)
    THEN /\ fresult' = Failed(fresult)
         /\ flogger' = flogger \o Format(file, ErrorOf(disk[file], file))
         /\ fpc' = AfterFile(idx, allFiles, fresult')
         /\ idx' = idx + 1
         /\ fpromise' = fpromise
    ELSE /\ fpromise' = [state |-> "rejected", reason |-> ErrorOf(disk[file], file)]
         /\ fpc' = "done"
         /\ UNCHANGED <<fresult, flogger, idx>>

\* line 64: lint calls pread(file) and awaits it
ReadFile ==
  /\ fpc = "read"
  /\ io' = Append(io, [op |-> "readFile", arg |-> allFiles[idx], outcome |-> "pending"])
  /\ fpc' = "await read"
  /\ UNCHANGED <<src, config, disk, allFiles, idx, foptions, fresult, flogger, fpromise,
                 fprior>>
  /\ UNCHANGED <<zvars, rvars>>

\* the read settles: line 64, and the catch of lines 66-69 when it failed
ReadSettles ==
  /\ fpc = "await read"
  /\ LET file == allFiles[idx]
         out == IF disk[file] = "unreadable" THEN "reject" ELSE "resolve"
     IN
       /\ io' = Settled(io, out)
       /\ IF out = "resolve"
            THEN /\ fpc' = "validate"
                 /\ UNCHANGED <<fresult, flogger, idx, fpromise>>
            ELSE FileFails("read", file)
  /\ UNCHANGED <<src, config, disk, allFiles, foptions, fprior>>
  /\ UNCHANGED <<zvars, rvars>>

\* line 65: lint calls contentLint.lint(content, options) and awaits it (a
\* content linter that throws ends in the catch of lines 66-69 at once)
Validate ==
  /\ fpc = "validate"
  /\ LET file == allFiles[idx] IN
       IF disk[file] = "throws"
         THEN /\ io' = Append(io, [op |-> "contentLint.lint", arg |-> file,
                                   options |-> foptions, outcome |-> "throw"])
              /\ FileFails("validate", file)
         ELSE /\ io' = Append(io, [op |-> "contentLint.lint", arg |-> file,
                                   options |-> foptions, outcome |-> "pending"])
              /\ fpc' = "await validate"
              /\ UNCHANGED <<fresult, flogger, idx, fpromise>>
  /\ UNCHANGED <<src, config, disk, allFiles, foptions, fprior>>
  /\ UNCHANGED <<zvars, rvars>>

\* the validation settles: line 65, and the catch of lines 66-69 when the
\* content linter rejected
ValidateSettles ==
  /\ fpc = "await validate"
  /\ LET file == allFiles[idx]
         out == IF disk[file] = "invalid" THEN "reject" ELSE "resolve"
     IN
       /\ io' = Settled(io, out)
       /\ IF out = "resolve"
            THEN /\ fpc' = AfterFile(idx, allFiles, fresult)
                 /\ idx' = idx + 1
                 /\ UNCHANGED <<fresult, flogger, fpromise>>
            ELSE FileFails("validate", file)
  /\ UNCHANGED <<src, config, disk, allFiles, foptions, fprior>>
  /\ UNCHANGED <<zvars, rvars>>

\* line 72: return result
Return ==
  /\ fpc = "return"
  /\ fpromise' = [state |-> "resolved", value |-> fresult]
  /\ fpc' = "done"
  /\ UNCHANGED <<src, config, disk, allFiles, idx, foptions, fresult, io, flogger, fprior>>
  /\ UNCHANGED <<zvars, rvars>>

\* lint(src, config) called a second time on the same ZFileLint, with the same
\* arguments and an unchanged file system
CallAgain ==
  /\ fpc = "done"
  /\ fprior.runs = 0
  /\ fprior' = [runs |-> 1, io |-> io, flogger |-> flogger, fpromise |-> fpromise]
  /\ fpc' = "call again"
  /\ io' = <<>>
  /\ flogger' = <<>>
  /\ fpromise' = [state |-> "pending"]
  /\ UNCHANGED <<src, config, disk, allFiles, idx, foptions, fresult>>
  /\ UNCHANGED <<zvars, rvars>>

(***************************************************************************)
(* ZConfigReaderPrettier (its source is not among the files; modelled from *)
(* its contract and its tests, config-reader-prettier.class.spec.ts)       *)
(***************************************************************************)
\* prettier's resolveConfig resolving to null: no options could be loaded
NullOptions == [none |-> TRUE]

\* the options objects resolveConfig can resolve to
PrettierOptions ==
  [singleQuote : BOOLEAN, semi : BOOLEAN, tabWidth : {2, 4}, printWidth : {80, 120}]

\* the config argument of read: null, empty, or a module name
ReaderConfigs == {Null, "", "@zthun/prettier-config"}

\* require.resolve(config)
RequireResolve(name) == "node_modules/" \o name \o "/index.js"

\* the arguments read passes to resolveConfig (tests 'reads the supplied config
\* file if passed' and 'reads the config using a prettier config search for
\* falsy config values')
ResolveConfigArgs(cfg) ==
  [dir |-> "process.cwd()", config |-> IF Truthy(cfg) THEN RequireResolve(cfg) ELSE Null]

\* a read that falls back to empty options when none can be loaded
PrettierReadDefault(resolved) ==
  [state |-> "resolved", value |-> IF resolved = NullOptions THEN [empty |-> TRUE] ELSE resolved]

\* what read settles to once resolveConfig resolved (tests 'returns the options'
\* and 'returns a rejected promise if no options can be loaded')
PrettierRead(resolved) ==
  IF resolved = NullOptions
    THEN [state |-> "rejected", reason |-> "no options"]
    ELSE [state |-> "resolved", value |-> resolved]

RIdle ==
  /\ rpc = "idle"
  /\ rconfig = Null
  /\ rresolved = NullOptions
  /\ rcalls = <<>>
  /\ rpromise = [state |-> "pending"]

RInit ==
  /\ rpc = "read"
  /\ rconfig \in ReaderConfigs
  /\ rresolved \in PrettierOptions \cup {NullOptions}
  /\ rcalls = <<>>
  /\ rpromise = [state |-> "pending"]

\* read(config) calls resolveConfig
ReaderResolve ==
  /\ rpc = "read"
  /\ rcalls' = Append(rcalls, ResolveConfigArgs(rconfig))
  /\ rpc' = "resolving"
  /\ UNCHANGED <<rconfig, rresolved, rpromise>>
  /\ UNCHANGED <<zvars, fvars>>

\* resolveConfig resolved: read returns the options or rejects
ReaderSettle ==
  /\ rpc = "resolving"
  /\ rpromise' = PrettierRead(rresolved)
  /\ rpc' = "done"
  /\ UNCHANGED <<rconfig, rresolved, rcalls>>
  /\ UNCHANGED <<zvars, fvars>>

NextReader ==
  \/ ReaderResolve
  \/ ReaderSettle

InitReader == ZIdle /\ FIdle /\ RInit

SpecReader == InitReader /\ [][NextReader]_vars

Next ==
  \/ RunParse
  \/ ConfigLoadSettles
  \/ ConfigFileSettles
  \/ LintJson
  \/ LintYaml
  \/ LintEs
  \/ LintTs
  \/ LintSass
  \/ LintHtml
  \/ LinterSettles
  \/ LintReturn

Init == ZInit /\ FIdle /\ RIdle

Spec == Init /\ [][Next]_vars

NextFile ==
  \/ Expand
  \/ ReadConfig
  \/ ConfigSettles
  \/ ReadFile
  \/ ReadSettles
  \/ Validate
  \/ ValidateSettles
  \/ Return

InitFile == ZInit /\ FInit /\ RIdle

SpecFile == InitFile /\ [][NextFile]_vars

\* either object, called once
NextBoth ==
  \/ Next
  \/ NextFile

InitBoth == ((ZInit /\ FIdle) \/ (ZIdle /\ FInit)) /\ RIdle

SpecBoth == InitBoth /\ [][NextBoth]_vars

\* either object, called once and then a second time with the same arguments
NextTwice ==
  \/ LintCall
  \/ LintJson
  \/ LintYaml
  \/ LintEs
  \/ LintTs
  \/ LintSass
  \/ LintHtml
  \/ LinterSettles
  \/ LintReturn
  \/ LintAgain
  \/ NextFile
  \/ CallAgain

InitTwice == ((ZCall /\ FIdle) \/ (ZIdle /\ FInit)) /\ RIdle

SpecTwice == InitTwice /\ [][NextTwice]_vars

(***************************************************************************)
(* Observations on the recorded calls                                      *)
(***************************************************************************)
\* the arguments of the calls of one operation, in call order
RECURSIVE ArgsOf(_, _)
ArgsOf(trace, op) ==
  IF trace = <<>> THEN <<>>
  ELSE IF Head(trace).op = op
    THEN <<Head(trace).arg>> \o ArgsOf(Tail(trace), op)
    ELSE ArgsOf(Tail(trace), op)

FileReads == ArgsOf(io, "readFile")

Validations == ArgsOf(io, "contentLint.lint")

ConfigReads == ArgsOf(io, "configReader.read")

\* the matched occurrences whose read succeeds, in order
RECURSIVE Readable(_)
Readable(files) ==
  IF files = <<>> THEN <<>>
  ELSE IF disk[Head(files)] /= "unreadable"
    THEN <<Head(files)>> \o Readable(Tail(files))
    ELSE Readable(Tail(files))

\* configReader.read was called and did not resolve
ConfigFailed ==
  \E n \in 1..Len(io) : io[n].op = "configReader.read" /\ io[n].outcome \in {"reject", "throw"}

\* the expansion of the patterns ended in an exception of G.sync
GlobFailed == \E n \in 1..Len(src) : src[n] = ""

\* lint is past the config read, in or after the loop over the files
InLoop == fpc \in {"read", "await read", "validate", "await validate", "return"}

\* some matched file cannot be read or is rejected by the content linter
SomeFileFails == \E n \in 1..Len(allFiles) : disk[allFiles[n]] /= "valid"

\* how often ZLint.lint called a linter field
CallCount(linter) == Cardinality({n \in 1..Len(calls) : calls[n].linter = linter})

AllReturnedTrue == \A n \in 1..Len(returned) : returned[n] = "true"

(***************************************************************************)
(* Claims                                                                  *)
(***************************************************************************)
\* C1: ZFileLint.lint does not short-circuit on a per-file failure: when the
\* matched list has at least two entries, config resolution did not fail and
\* some file fails, every entry is read, every readable entry is validated,
\* and lint resolves to false.
C1_NoShortCircuit ==
  (fpc = "done" /\ ~GlobFailed /\ Len(allFiles) >= 2 /\ ~ConfigFailed /\ SomeFileFails)
    => /\ FileReads = allFiles
       /\ Validations = Readable(allFiles)
       /\ fpromise = [state |-> "resolved", value |-> FALSE]

\* C1 witness: the first of at least two matched files failed, a later one is
\* valid, and lint went on to it and returned
C1_Witness ==
  /\ fpc = "done"
  /\ ~GlobFailed
  /\ Len(allFiles) >= 2
  /\ disk[allFiles[1]] \in {"invalid", "unreadable"}
  /\ disk[allFiles[Len(allFiles)]] = "valid"
  /\ Len(FileReads) = Len(allFiles)
  /\ fpromise.state = "resolved"

\* C2: the promise run returns is never rejected, whatever parse and the
\* linters do.
C2_RunNeverRejects == promise.state /= "rejected"

\* C3: ZFileLint.lint returns true exactly when config resolution did not fail
\* and every matched file is read and validated without error (so also when
\* nothing matched), and false otherwise.
C3_ResultIffAllPass ==
  fpc = "done"
    => /\ fpromise.state = "resolved"
       /\ fpromise.value = (~ConfigFailed /\ ~SomeFileFails)

\* C4: ZLint.lint returns 0 exactly when every linter it invoked returned
\* true, and 1 when one of them returned false.
C4_ExitCodeIsAnd ==
  pc = "done"
    => /\ promise.state = "resolved"
       /\ promise.value = (IF AllReturnedTrue THEN 0 ELSE 1)

\* C4 witness: lint returned 1 although the last linter it invoked returned
\* true, because an earlier one returned false
C4_Witness ==
  /\ pc = "done"
  /\ Len(returned) >= 2
  /\ returned[1] = "false"
  /\ returned[Len(returned)] = "true"
  /\ promise = [state |-> "resolved", value |-> 1]

\* C5: when the config read fails, ZFileLint.lint reports it, returns false at
\* once, reads no file and never invokes the content linter.
C5_ConfigFailureShortCircuits ==
  ConfigFailed
    => /\ fpc = "done"
       /\ fpromise = [state |-> "resolved", value |-> FALSE]
       /\ FileReads = <<>>
       /\ Validations = <<>>
       /\ Len(flogger) = 1
       /\ flogger[1].level = "error"

\* C5 witness: files matched, the config read was rejected and lint returned
C5_Witness ==
  /\ fpc = "done"
  /\ Len(allFiles) >= 1
  /\ ConfigFailed
  /\ fpromise.state = "resolved"

\* C6: when the expansion of the patterns matches no file (the empty pattern
\* list included),
\* ZFileLint.lint returns true and calls neither the config reader, nor
\* readFile, nor the content linter, with or without a config argument.
C6_EmptyMatchIsSuccess ==
  (fpc /= "call" /\ ~GlobFailed /\ ExpandAll(src) = <<>>)
    => /\ fpc = "done"
       /\ fpromise = [state |-> "resolved", value |-> TRUE]
       /\ io = <<>>
       /\ flogger = <<>>

\* C6 witness: a pattern that matches nothing, passed with a config path
C6_Witness ==
  /\ fpc = "done"
  /\ src /= <<>>
  /\ ~GlobFailed
  /\ ExpandAll(src) = <<>>
  /\ Truthy(config)

\* C7 as stated: with a non-empty matched list the config reader is called
\* exactly once, with or without a config argument, before any file is read.
C7_Original ==
  ((InLoop \/ fpc = "done") /\ ~GlobFailed /\ Len(allFiles) >= 1)
    => /\ Len(ConfigReads) = 1
       /\ io[1].op = "configReader.read"

\* C7 amended: with a non-empty matched list the config reader is called
\* exactly once when the config argument is a non-empty string, and not at all
\* when it is undefined or empty (the content linter then gets the default
\* empty options); the call is never repeated per file and comes before any
\* file is read.
C7_ReadOnceWhenConfigGiven ==
  ((InLoop \/ fpc = "done") /\ ~GlobFailed /\ Len(allFiles) >= 1)
    => /\ Len(ConfigReads) = (IF Truthy(config) THEN 1 ELSE 0)
       /\ Truthy(config) => io[1].op = "configReader.read"
       /\ ~Truthy(config) =>
            \A n \in 1..Len(io) :
              io[n].op = "contentLint.lint" => io[n].options = EmptyOptions

\* C7 witness: a config path was given, the reader was called once, and at
\* least two files were read after it
C7_Witness ==
  /\ fpc = "done"
  /\ Truthy(config)
  /\ Len(ConfigReads) = 1
  /\ Len(FileReads) >= 2

\* C8: the promise ZFileLint.lint returns is never rejected: it is pending
\* until lint is done and then resolved with a boolean.
C8_NoExceptionEscapes ==
  /\ fpromise.state \in {"pending", "resolved"}
  /\ fpc = "done" <=> fpromise.state = "resolved"
  /\ fpromise.state = "resolved" => fpromise.value \in BOOLEAN

\* C9: in a ZLint.lint that returns, the linter of every kind present in the
\* options was invoked exactly once, also after an earlier linter returned
\* false.
C9_SiblingsStillRun ==
  pc = "done"
    => \A k \in KindSet : HasFiles(options, k) => CallCount(LinterOf(k)) = 1

\* C9 witness: the first linter invoked returned false and two more were
\* invoked after it
C9_Witness ==
  /\ pc = "done"
  /\ Len(calls) >= 3
  /\ returned[1] = "false"

\* C10: the linter of a kind whose glob-list key is absent is never invoked,
\* and the exit code is decided by the linters of the present kinds alone.
C10_AbsentKindsUntouched ==
  /\ \A k \in KindSet : ~HasFiles(options, k) => CallCount(LinterOf(k)) = 0
  /\ pc = "done"
       => /\ \A n \in 1..Len(calls) :
               \E k \in DOMAIN options.files : calls[n].linter = LinterOf(k)
          /\ promise.value = ExitCode(\A n \in 1..Len(calls) : returned[n] = "true")

\* C10 witness: lint returned 0 with some kinds present and others absent
C10_Witness ==
  /\ pc = "done"
  /\ Len(calls) >= 2
  /\ \E k \in KindSet : ~HasFiles(options, k)
  /\ promise = [state |-> "resolved", value |-> 0]

\* parse is over
ParseEnded == pc \notin {"run", "await configLoad", "await readFile"}

\* parse named a file to read
Located == Truthy(env.config) \/ env.search \notin {Null, "", SearchError}

\* C11: when parse fails (the search rejects, no configuration file is
\* located, the file is unreadable, or its content does not parse to an
\* object), run reports the error, resolves to 1 and invokes no linter; until
\* parse is over no linter is invoked either.
C11_ParseFailureAborts ==
  /\ ~ParseEnded => (calls = <<>> /\ promise.state = "pending")
  /\ (ParseEnded /\ (~Located \/ env.file /= "well-formed"))
       => /\ pc = "caught"
          /\ promise = [state |-> "resolved", value |-> 1]
          /\ calls = <<>>
          /\ logger /= <<>>
          /\ logger[Len(logger)].level = "error"
          /\ Len(logger) = (IF Located THEN 2 ELSE 1)

\* C11 witness: a file was located but its content does not parse, and run
\* resolved to 1
C11_Witness ==
  /\ pc = "caught"
  /\ Located
  /\ env.file = "malformed"
  /\ promise.state = "resolved"

\* C12: the linters of es, ts, sass and html are called with the kind's glob
\* list and a config argument that is the kind's override when a non-empty one
\* is given and the kind's default path otherwise, so it is never empty; the
\* json and yaml linters are called with the glob list alone.
C12_ConfigArgument ==
  \A n \in 1..Len(calls) : \A k \in KindSet :
    calls[n].linter = LinterOf(k) =>
      IF k \in {"json", "yaml"}
        THEN calls[n].args = << options.files[k] >>
        ELSE /\ Len(calls[n].args) = 2
             /\ calls[n].args[1] = options.files[k]
             /\ calls[n].args[2] \notin {"", Null}
             /\ calls[n].args[2] =
                  IF k \in DOMAIN options.configs /\ options.configs[k] \notin {"", Null}
                    THEN options.configs[k]
                    ELSE CASE k = "es" -> DefaultEsLintConfig
                           [] k = "ts" -> DefaultTsLintConfig
                           [] k = "sass" -> DefaultSassLintConfig
                           [] k = "html" -> DefaultHtmlHintConfig

\* C12 witness: in one run a linter got its kind's override, another got its
\* default path, and the json linter got the glob list alone
C12_Witness ==
  /\ pc = "done"
  /\ \E n \in 1..Len(calls) : Len(calls[n].args) = 2 /\ calls[n].args[2] = "custom.cfg"
  /\ \E n \in 1..Len(calls) : calls[n].linter = "htmlHint" /\ calls[n].args[2] = DefaultHtmlHintConfig
  /\ \E n \in 1..Len(calls) : calls[n].linter = "jsonLint" /\ Len(calls[n].args) = 1

\* C13: a second lint with the same options (ZLint) or the same arguments
\* (ZFileLint), over unchanged files and configuration and with deterministic
\* linters, settles as the first did, and makes the same calls and writes the
\* same lines: nothing the first call left on the object reaches the second.
C13_SecondRunSame ==
  /\ (prior.runs = 1 /\ pc \in {"done", "rejected"})
       => /\ promise = prior.promise
          /\ calls = prior.calls
          /\ returned = prior.returned
          /\ logger = prior.logger
  /\ (fprior.runs = 1 /\ fpc = "done")
       => /\ fpromise = fprior.fpromise
          /\ io = fprior.io
          /\ flogger = fprior.flogger

\* C13 witness: the second call of ZFileLint.lint ended, after a first call
\* that read a config and failed on one of several files
C13_Witness ==
  /\ fprior.runs = 1
  /\ fpc = "done"
  /\ Len(allFiles) >= 2
  /\ fprior.fpromise = [state |-> "resolved", value |-> FALSE]
  /\ \E n \in 1..Len(io) : io[n].op = "configReader.read"
  /\ \E n \in 1..Len(io) : io[n].op = "contentLint.lint" /\ io[n].outcome = "resolve"

\* C14: ZConfigReaderPrettier.read resolves to exactly the options object the
\* underlying config resolution produced, and returns a rejected promise when
\* the resolution produced none (null).
C14_PrettierRead ==
  rpc = "done"
    => /\ rresolved /= NullOptions => rpromise = [state |-> "resolved", value |-> rresolved]
       /\ rresolved = NullOptions => rpromise.state = "rejected"
       /\ Len(rcalls) = 1

\* C14 witness: the resolution produced no options and read was rejected
C14_Witness ==
  /\ rpc = "done"
  /\ rresolved = NullOptions
  /\ Len(rcalls) = 1
  /\ rpromise.state = "rejected"

\* the progress headers ZLint.lint wrote for a kind
HeadersOf(kind) ==
  {n \in 1..Len(logger) : logger[n].text = "Linting " \o HeaderName(kind) \o " files"}

\* C15 as stated: the linter of a kind whose glob list is present but is the
\* empty array is not invoked, and no progress header is written for it.
C15_Original ==
  \A k \in KindSet :
    (HasFiles(options, k) /\ options.files[k] = <<>>)
      => (CallCount(LinterOf(k)) = 0 /\ HeadersOf(k) = {})

\* C15 amended: ZLint.lint invokes a kind's linter and writes its progress
\* header whenever the kind's glob-list key is present, the empty array
\* included: the linter is then called once with the empty list and the header
\* counts 0 globs; only a kind whose key is absent gets no call and no header.
C15_PresentMeansInvoked ==
  pc = "done" =>
    \A k \in KindSet :
      /\ Cardinality(HeadersOf(k)) = (IF k \in DOMAIN options.files THEN 1 ELSE 0)
      /\ CallCount(LinterOf(k)) = Cardinality(HeadersOf(k))
      /\ (k \in DOMAIN options.files /\ options.files[k] = <<>>) =>
           /\ \A n \in HeadersOf(k) : logger[n].about = 0
           /\ \A n \in 1..Len(calls) :
                calls[n].linter = LinterOf(k) => calls[n].args[1] = <<>>

\* C15 witness: lint returned after calling the linter of a kind whose glob
\* list is the empty array
C15_Witness ==
  /\ pc = "done"
  /\ \E k \in DOMAIN options.files :
       /\ options.files[k] = <<>>
       /\ CallCount(LinterOf(k)) = 1
       /\ \E n \in HeadersOf(k) : logger[n].about = 0

\* the linter calls of ZLint.lint that have not settled yet
InFlight == Len(calls) - Len(returned)

\* C16: no two operations are in progress at once. In ZLint.lint at most one
\* linter call is unsettled at any time, and only while lint awaits it; in
\* ZFileLint.lint at most one call is unsettled, the last one made, and only
\* while lint awaits it; a file is read only after the file before it was read and,
\* when its read succeeded, validated, and a validation directly follows the
\* successful read of the same file.
C16_OneAtATime ==
  /\ InFlight \in {0, 1}
  /\ InFlight = 1 <=> \E k \in KindSet : pc = "await " \o k
  /\ \A n \in 1..Len(io) :
       /\ io[n].outcome = "pending" =>
            (n = Len(io) /\ fpc \in {"await config", "await read", "await validate"})
       /\ io[n].op = "readFile" =>
            \/ n = 1
            \/ io[n - 1].op = "configReader.read"
            \/ io[n - 1].op = "contentLint.lint"
            \/ (io[n - 1].op = "readFile" /\ io[n - 1].outcome = "reject")
       /\ io[n].op = "contentLint.lint" =>
            /\ n > 1
            /\ io[n - 1].op = "readFile"
            /\ io[n - 1].outcome = "resolve"
            /\ io[n - 1].arg = io[n].arg

\* C16 witness: lint awaits its third linter, the two before it have settled
C16_Witness ==
  /\ InFlight = 1
  /\ Len(returned) = 2
  /\ \E k \in KindSet : pc = "await " \o k

\* how often x occurs in a sequence
Count(seq, x) == Cardinality({n \in 1..Len(seq) : seq[n] = x})

\* how many matches the patterns before the i-th give together
RECURSIVE Offset(_)
Offset(i) == IF i <= 1 THEN 0 ELSE Offset(i - 1) + Len(Glob(src[i - 1]))

\* the "Errors in <file>." lines written for a file
ErrorHeads(file) ==
  Cardinality({n \in 1..Len(flogger) : flogger[n].text = "Errors in " \o file \o "."})

\* C17: once the config resolution succeeded or was skipped, ZFileLint.lint
\* reads the matches of the first pattern, then those of the second, and so
\* on, each occurrence exactly once: a path matched by k patterns is read k
\* times, and reported k times when it fails; nothing is read again.
C17_EveryOccurrenceOnce ==
  (fpc = "done" /\ ~GlobFailed /\ ~ConfigFailed) =>
    /\ Len(FileReads) = Offset(Len(src) + 1)
    /\ \A i \in 1..Len(src) : \A m \in 1..Len(Glob(src[i])) :
         FileReads[Offset(i) + m] = Glob(src[i])[m]
    /\ \A f \in Files :
         /\ Count(Validations, f) = (IF disk[f] = "unreadable" THEN 0 ELSE Count(FileReads, f))
         /\ ErrorHeads(f) = (IF disk[f] = "valid" THEN 0 ELSE Count(FileReads, f))

\* C17 witness: two patterns match the same invalid file, which was read twice
\* and reported twice
C17_Witness ==
  /\ fpc = "done"
  /\ Len(src) = 2
  /\ ~GlobFailed
  /\ \E f \in Files :
       /\ disk[f] = "invalid"
       /\ Count(Glob(src[1]), f) = 1
       /\ Count(Glob(src[2]), f) = 1
       /\ Count(FileReads, f) = 2
       /\ ErrorHeads(f) = 2

\* the position of the kind a call's linter belongs to in an order of the kinds
Rank(order, linter) == CHOOSE m \in 1..Len(order) : LinterOf(order[m]) = linter

\* the linters were invoked following an order of the kinds, each at most once
InvokedInOrder(order) ==
  \A m, n \in 1..Len(calls) :
    m < n => Rank(order, calls[m].linter) < Rank(order, calls[n].linter)

\* the outcomes the linters gave, as a set: their order is forgotten
OutcomeSet == {returned[n] : n \in 1..Len(returned)}

\* C18 as stated: ZLint.lint invokes the linters of the present kinds in the
\* order es, ts, sass, html, json, yaml.
C18_Original ==
  InvokedInOrder(<<"es", "ts", "sass", "html", "json", "yaml">>)

\* C18 amended: ZLint.lint invokes the linters of the present kinds in the
\* fixed order json, yaml, es, ts, sass, html, and the exit code depends only
\* on which outcomes the linters gave, not on their order.
C18_FixedOrder ==
  /\ InvokedInOrder(<<"json", "yaml", "es", "ts", "sass", "html">>)
  /\ pc = "done" => promise.value = (IF "false" \in OutcomeSet THEN 1 ELSE 0)

\* C18 witness: lint returned after invoking the json linter first and the es
\* linter after it, one of the linters having failed
C18_Witness ==
  /\ pc = "done"
  /\ Len(calls) >= 3
  /\ calls[1].linter = LinterOf("json")
  /\ \E n \in 2..Len(calls) : calls[n].linter = LinterOf("es")
  /\ OutcomeSet = {"true", "false"}

\* the matched occurrences that fail, in the order they were discovered
FailedOccurrences == SelectSeq(allFiles, LAMBDA f : disk[f] /= "valid")

\* the positions of the progress line in the log
ProgressLines ==
  {n \in 1..Len(flogger) : flogger[n].level = "log"
                           /\ flogger[n].text = "Checking syntax for files"}

\* C19: ZFileLint.lint writes the progress line with the file count once,
\* before it reads any file, and after it one error block per failed file
\* occurrence, the line naming the file and then the failure detail, in the
\* order the files were discovered; a file that passed gets no block.
C19_ErrorBlocksInOrder ==
  /\ Cardinality(ProgressLines) <= 1
  /\ FileReads /= <<>> =>
       /\ ProgressLines = {1}
       /\ flogger[1].about = Len(allFiles)
  /\ (fpc = "done" /\ ~GlobFailed /\ ~ConfigFailed /\ allFiles /= <<>>) =>
       /\ ProgressLines = {1}
       /\ Len(flogger) = 2 + 2 * Len(FailedOccurrences)
       /\ \A k \in 1..Len(FailedOccurrences) :
            LET file == FailedOccurrences[k] IN
              /\ flogger[2 * k + 1] =
                   [level |-> "error", text |-> "Errors in " \o file \o "."]
              /\ flogger[2 * k + 2] =
                   [level |-> "error", text |-> ErrorOf(disk[file], file)]

\* C19 witness: of three occurrences the first and the third failed and the
\* second passed; the log holds the progress lines and the two blocks in order
C19_Witness ==
  /\ fpc = "done"
  /\ Len(allFiles) = 3
  /\ disk[allFiles[1]] = "unreadable"
  /\ disk[allFiles[2]] = "valid"
  /\ allFiles[3] = allFiles[1]
  /\ Len(flogger) = 6
  /\ flogger[3].text = "Errors in " \o allFiles[1] \o "."
  /\ flogger[5].text = "Errors in " \o allFiles[3] \o "."

====
